---- MODULE Spec2Model ----
(***************************************************************************)
(* Model of caffe2/operators/spatial_batch_norm_gradient_op.cc:            *)
(*   - SpatialBNGradientOp<CPUContext>::RunOnDevice, run step by step      *)
(*     (entry block, the NCHW reduction and propagation loops, the NHWC    *)
(*     loop), over a workspace whose output blobs persist between runs;    *)
(*   - GetSpatialBNGradient::GetGradientDefs, the gradient maker.          *)
(* Arithmetic is exact: tensor values are integers, and the input gradient *)
(* (which the code divides by N*H*W) is a normalised fraction <<num,den>>. *)
(***************************************************************************)
EXTENDS Integers, Sequences, FiniteSets, TLC

\* ------------------------------------------------------------------ bounds
MaxN == 2
MaxC == 2

\* spatial extents <<H, W>> of the logical tensors that are fed
Spatial == {<<1, 2>>, <<2, 1>>}

\* values of the activation / output gradient patterns
XVals == {0, 1}
DYVals == {-1, 0, 1}

\* what uninitialised (freshly allocated) memory may hold
Garbage == {-7, 7}
\* what a caller may leave in an output blob between two runs
Junk == {99}

Orders == {"NCHW", "NHWC", "UNKNOWN"}
ShapeKinds == {"ok", "rank5", "scaleLong", "meanLong", "invLong"}

VARIABLES
    \* the logical problem the workspace holds (fixed by Init)
    shape,      \* <<N, C, H, W>> of the logical tensor
    xpat,       \* pattern the logical activation is drawn from
    dypat,      \* pattern the logical output gradient is drawn from
    vseed,      \* seed of the per-channel vectors
    kind,       \* which shape contract the fed blobs break, if any
    \* the operator instance that runs and its input blobs
    order,      \* order_
    Xdims,      \* X.dims()
    X,          \* X.data<float>()
    dY,         \* dY.data<float>()
    scale,      \* Input(SCALE)
    mean,       \* Input(SAVED_MEAN)
    invvar,     \* Input(SAVED_INV_VAR)
    \* the output blobs
    dXdims,     \* dX->dims()
    dX,         \* dX data, fractions
    dScale,     \* dScale data
    dBias,      \* dBias data
    \* RunOnDevice's position and locals
    pc,         \* "idle","nchw_reduce","nchw_prop","nhwc","done","failed","crashed"
    err,        \* the failure condition of the last failed run
    idx,        \* nc / nhw, the loop counter
    N, C, H, W, \* the locals of lines 12-15
    \* history of the current run
    contrib,    \* per channel: how many positions the accumulators have received
    writes,     \* per inputGrad element: how many += it has received
    \* history of the workspace
    prev,       \* per order: the outputs of the last successful run
    \* the gradient maker
    gdef,       \* the forward OperatorDef handed to GetSpatialBNGradient
    gres        \* what GetGradientDefs produced

opvars == <<shape, xpat, dypat, vseed, kind, order, Xdims, X, dY, scale, mean,
            invvar, dXdims, dX, dScale, dBias, pc, err, idx, N, C, H, W,
            contrib, writes, prev>>
gvars == <<gdef, gres>>
vars == <<opvars, gvars>>

\* ------------------------------------------------------------ arithmetic
RECURSIVE GCD(_, _)
GCD(a, b) == IF b = 0 THEN a ELSE GCD(b, a % b)

Abs(a) == IF a < 0 THEN -a ELSE a

\* the fraction n/d in lowest terms with a positive denominator (d # 0)
Frac(n, d) ==
    LET g == GCD(Abs(n), Abs(d))
        s == IF d < 0 THEN -1 ELSE 1
    IN  <<s * (n \div g), s * (d \div g)>>

FInt(a) == <<a, 1>>
FAdd(p, q) == Frac(p[1] * q[2] + q[1] * p[2], p[2] * q[2])
FMul(p, q) == Frac(p[1] * q[1], p[2] * q[2])
FDiv(p, k) == Frac(p[1], p[2] * k)

RECURSIVE SeqSum(_)
SeqSum(s) == IF s = <<>> THEN 0 ELSE Head(s) + SeqSum(Tail(s))

RECURSIVE SeqProd(_)
SeqProd(s) == IF s = <<>> THEN 1 ELSE Head(s) * SeqProd(Tail(s))

\* element i (0-based, as in the source) of a buffer
At(buf, i) == buf[i + 1]

\* ------------------------------------------------- the logical problem
\* row-major position of (n,c,h,w), all 0-based, in a tensor of shape s
Lin(s, n, c, h, w) == ((n * s[2] + c) * s[3] + h) * s[4] + w

Patterns3(S) == {<<a, b, c>> : a \in S, b \in S, c \in S}
Patterns2(S) == {<<a, b>> : a \in S, b \in S}
PatAt(pat, i) == pat[(i % Len(pat)) + 1]

\* the logical activation and output gradient at (n,c,h,w)
XL(n, c, h, w) == PatAt(xpat, Lin(shape, n, c, h, w))
DYL(n, c, h, w) == PatAt(dypat, Lin(shape, n, c, h, w) + 1)

\* the per-channel vectors at channel c
ScaleL(c) == 1 + ((c + vseed) % 3)
MeanL(c) == (c + vseed) % 2
InvL(c) == 1 + ((c + 1 + vseed) % 2)

NumEl(s) == s[1] * s[2] * s[3] * s[4]

\* the dims of the blob that holds a logical tensor of shape s in layout o
PhysDims(o, s) == IF o = "NCHW" THEN s ELSE <<s[1], s[3], s[4], s[2]>>

\* the logical coordinates <<n,c,h,w>> of flat element i in layout o
Coord(o, s, i) ==
    IF o = "NCHW"
    THEN <<i \div (s[2] * s[3] * s[4]), (i \div (s[3] * s[4])) % s[2],
           (i \div s[4]) % s[3], i % s[4]>>
    ELSE <<i \div (s[3] * s[4] * s[2]), i % s[2],
           (i \div (s[4] * s[2])) % s[3], (i \div s[2]) % s[4]>>

EncodeX(o) ==
    [i \in 1..NumEl(shape) |->
        LET q == Coord(o, shape, i - 1) IN XL(q[1], q[2], q[3], q[4])]
EncodeDY(o) ==
    [i \in 1..NumEl(shape) |->
        LET q == Coord(o, shape, i - 1) IN DYL(q[1], q[2], q[3], q[4])]

\* a per-channel blob; a blob that breaks the length contract has one more
VecLen(which) == IF kind = which THEN shape[2] + 1 ELSE shape[2]

Shapes == {<<n, c, sp[1], sp[2]>> : n \in 1..MaxN, c \in 1..MaxC, sp \in Spatial}

NoRes == [dX |-> <<>>, dScale |-> <<>>, dBias |-> <<>>, none |-> TRUE]
NoArg == [present |-> FALSE, has_i |-> FALSE, i |-> 0]
NoDef == [nin |-> 0, nout |-> 0, is_test |-> NoArg]
NoGrad == [status |-> "none", ops |-> <<>>]

InitOp ==
    /\ shape \in Shapes
    /\ xpat \in Patterns2(XVals)
    /\ dypat \in Patterns3(DYVals)
    /\ vseed \in {0, 1}
    /\ kind \in ShapeKinds
    /\ kind # "ok" => (xpat = <<0, 1>> /\ dypat = <<1, 0, -1>> /\ vseed = 0)
    /\ order = "NCHW"
    /\ Xdims = <<>> /\ X = <<>> /\ dY = <<>>
    /\ scale = [i \in 1..VecLen("scaleLong") |-> ScaleL(i - 1)]
    /\ mean = [i \in 1..VecLen("meanLong") |-> MeanL(i - 1)]
    /\ invvar = [i \in 1..VecLen("invLong") |-> InvL(i - 1)]
    /\ dXdims = <<>> /\ dX = <<>> /\ dScale = <<>> /\ dBias = <<>>
    /\ pc = "idle" /\ err = "" /\ idx = 0
    /\ N = 0 /\ C = 0 /\ H = 0 /\ W = 0
    /\ contrib = <<>> /\ writes = <<>>
    /\ prev = [o \in {"NCHW", "NHWC"} |-> NoRes]

\* What the caller feeds the operator instance built with order o: the logical
\* tensors in layout phys (an UNKNOWN instance may be given either layout).
FedLayouts(o) == IF o = "UNKNOWN" THEN {"NCHW", "NHWC"} ELSE {o}
FedDims(phys) ==
    IF kind = "rank5" THEN PhysDims(phys, shape) \o <<1>> ELSE PhysDims(phys, shape)

\* Between two runs the caller may overwrite the output blobs: with blobs of
\* the sizes a run leaves, or with blobs of other sizes.
Scribble(j, same) ==
    /\ pc = "idle"
    /\ dX' = [i \in 1..(IF same THEN NumEl(shape) ELSE 1) |-> FInt(j)]
    /\ dXdims' = (IF same THEN PhysDims("NCHW", shape) ELSE <<1>>)
    /\ dScale' = [i \in 1..(IF same THEN shape[2] ELSE shape[2] + 1) |-> j]
    /\ dBias' = [i \in 1..(IF same THEN shape[2] ELSE shape[2] + 1) |-> j]
    /\ <<dX', dScale', dBias'>> # <<dX, dScale, dBias>>
    /\ UNCHANGED <<shape, xpat, dypat, vseed, kind, order, Xdims, X, dY, scale,
                   mean, invvar, pc, err, idx, N, C, H, W, contrib, writes,
                   prev, gvars>>

\* --------------------------------------------- RunOnDevice: entry block
Dim32(dims, i) == dims[i + 1]

\* lines 13-15: every order_ other than NCHW reads the dims as N,H,W,C
ChannelDim(o, dims) == IF o = "NCHW" THEN Dim32(dims, 1) ELSE Dim32(dims, 3)
HeightDim(o, dims) == IF o = "NCHW" THEN Dim32(dims, 2) ELSE Dim32(dims, 1)
WidthDim(o, dims) == IF o = "NCHW" THEN Dim32(dims, 3) ELSE Dim32(dims, 2)

\* lines 11, 16-17: what the DCHECK_EQs test (every scale blob here is 1-D)
ShapeChecks(dims, o, sc) == Len(dims) = 4 /\ Len(sc) = ChannelDim(o, dims)

\* lines 19-22, 36-37: the maps span C elements of blobs that hold Len(scale)
\* (unchecked in an NDEBUG build). Spanning more is undefined behaviour: the
\* process may die there, or go on with whatever lies past the blob.
MapsOverrun(c, sc, mn, iv) == c > Len(sc) \/ c > Len(mn) \/ c > Len(iv)

\* ResizeLike + mutable_data: n elements; what was there stays, the rest is
\* whatever the allocation holds
ResizeLike(buf, n, g) == [i \in 1..n |-> IF i <= Len(buf) THEN buf[i] ELSE g]

\* the accumulators left as ResizeLike gave them (setZero() forgotten)
VecSetZeroSkipped(buf, n) == buf

\* lines 36-40: setZero() through a map over the first n elements
VecSetZero(buf, n) == [i \in 1..Len(buf) |-> IF i <= n THEN 0 ELSE buf[i]]

\* lines 48-49, 69-70: dX_arr.setZero() through a map over n elements
ArrSetZero(buf, n) == [i \in 1..Len(buf) |-> IF i <= n THEN FInt(0) ELSE buf[i]]

\* whether a failed check aborts, whether an overrun kills the process: open
\* where the condition arises, not a question where it does not
Outcomes(arises) == IF arises THEN BOOLEAN ELSE {FALSE}

\* Lines 7-49 / 7-70 / 7-44,86-87, on the instance built with order o and the
\* blobs fed in layout phys. A failing DCHECK_EQ aborts in a debug build and is
\* compiled out in an NDEBUG build: both outcomes are possible. A failure
\* (abort, or the exception of line 87) ends the run of the workspace.
RunOnDevice_Begin(o, phys) ==
    /\ pc = "idle"
    /\ order' = o
    /\ Xdims' = FedDims(phys)
    /\ X' = EncodeX(phys)
    /\ dY' = EncodeDY(phys)
    /\ \E dcheck \in Outcomes(~ShapeChecks(FedDims(phys), o, scale)),
          crash \in Outcomes(MapsOverrun(ChannelDim(o, FedDims(phys)), scale,
                                         mean, invvar)),
          g \in Garbage :
        IF dcheck /\ ~ShapeChecks(FedDims(phys), o, scale)
        THEN /\ pc' = "failed"
             /\ err' = "ShapeMismatch"
             /\ UNCHANGED <<dXdims, dX, dScale, dBias, idx, N, C, H, W,
                            contrib, writes>>
        ELSE IF crash /\ MapsOverrun(ChannelDim(o, FedDims(phys)), scale, mean, invvar)
        THEN /\ pc' = "crashed"
             /\ err' = "Overrun"
             /\ UNCHANGED <<dXdims, dX, dScale, dBias, idx, N, C, H, W,
                            contrib, writes>>
        ELSE LET n == Dim32(FedDims(phys), 0)
                 c == ChannelDim(o, FedDims(phys))
                 h == HeightDim(o, FedDims(phys))
                 w == WidthDim(o, FedDims(phys))
                 rdX == ResizeLike(dX, SeqProd(FedDims(phys)), FInt(g))
                 rdScale == ResizeLike(dScale, Len(scale), g)
                 rdBias == ResizeLike(dBias, Len(scale), g)
             IN  /\ N' = n /\ C' = c /\ H' = h /\ W' = w
                 /\ dXdims' = FedDims(phys)
                 /\ dBias' = VecSetZero(rdBias, c)
                 /\ dScale' = VecSetZero(rdScale, c)
                 /\ idx' = 0
                 /\ contrib' = [k \in 1..c |-> 0]
                 /\ writes' = [k \in 1..SeqProd(FedDims(phys)) |-> 0]
                 /\ IF o \in {"NCHW", "NHWC"}
                    THEN /\ dX' = ArrSetZero(rdX, n * c * h * w)
                         /\ pc' = (IF o = "NCHW" THEN "nchw_reduce" ELSE "nhwc")
                         /\ err' = ""
                    ELSE /\ dX' = rdX
                         /\ pc' = "failed"
                         /\ err' = "UnsupportedLayout"
    /\ UNCHANGED <<shape, xpat, dypat, vseed, kind, scale, mean, invvar, prev,
                   gvars>>

\* ------------------------------------------------ RunOnDevice: NCHW loops
\* the block index read as channel-major within the batch (nc / N)
ChannelOfBatchMinor(nc, c) == (nc \div N) % c

\* line 52, 59
ChannelOf(nc, c) == nc % c

\* line 42, at channel c
ScaleInvVarNHW(c) == FDiv(FInt(At(scale, c) * At(invvar, c)), N * H * W)

\* line 53: dY_arr.col(nc).sum(), dY_arr being (H*W) x (N*C) column-major
NCHWBiasTerm(nc) ==
    SeqSum([r \in 1..(H * W) |-> At(dY, nc * (H * W) + r - 1)])

\* lines 54-56
NCHWScaleTerm(nc, c) ==
    SeqSum([r \in 1..(H * W) |->
        (At(X, nc * (H * W) + r - 1) - At(mean, c)) * At(invvar, c)
            * At(dY, nc * (H * W) + r - 1)])

\* lines 60-62: what is added to row r of column nc
NCHWdXValue(nc, r, c) ==
    FMul(ScaleInvVarNHW(c),
         FInt(At(dY, nc * (H * W) + r) * N * H * W - At(dBias, c)
              - (At(X, nc * (H * W) + r) - At(mean, c)) * At(dScale, c)
                    * At(invvar, c)))

\* the reduction loop bounded by C instead of N * C
ReduceDoneAfterFirstImage(nc) == nc >= C

\* line 51: the reduction loop has run to its end
ReduceDone(nc) == nc >= N * C

\* one iteration of the loop of lines 51-57
NCHWReduceStep ==
    /\ pc = "nchw_reduce"
    /\ ~ReduceDone(idx)
    /\ LET c == ChannelOf(idx, C)
       IN  /\ dBias' = [dBias EXCEPT ![c + 1] = @ + NCHWBiasTerm(idx)]
           /\ dScale' = [dScale EXCEPT ![c + 1] = @ + NCHWScaleTerm(idx, c)]
           /\ contrib' = [contrib EXCEPT ![c + 1] = @ + H * W]
    /\ IF ReduceDone(idx + 1)
       THEN pc' = "nchw_prop" /\ idx' = 0
       ELSE pc' = pc /\ idx' = idx + 1
    /\ UNCHANGED <<shape, xpat, dypat, vseed, kind, order, Xdims, X, dY, scale,
                   mean, invvar, dXdims, dX, err, N, C, H, W, writes, prev,
                   gvars>>

\* one iteration of the loop of lines 58-63
NCHWPropStep ==
    /\ pc = "nchw_prop"
    /\ idx < N * C
    /\ LET c == ChannelOf(idx, C)
           col == {idx * (H * W) + r : r \in 0..(H * W - 1)}
       IN  /\ dX' = [i \in 1..Len(dX) |->
                        IF (i - 1) \in col
                        THEN FAdd(dX[i], NCHWdXValue(idx, (i - 1) - idx * (H * W), c))
                        ELSE dX[i]]
           /\ writes' = [i \in 1..Len(writes) |->
                        IF (i - 1) \in col THEN writes[i] + 1 ELSE writes[i]]
    /\ IF idx + 1 >= N * C
       THEN pc' = "done" /\ idx' = 0
       ELSE pc' = pc /\ idx' = idx + 1
    /\ UNCHANGED <<shape, xpat, dypat, vseed, kind, order, Xdims, X, dY, scale,
                   mean, invvar, dXdims, dScale, dBias, err, N, C, H, W,
                   contrib, prev, gvars>>

\* ------------------------------------------------- RunOnDevice: NHWC loop
\* line 72: dY_arr.rowwise().sum(), dY_arr being C x (N*H*W) column-major
DYRowSum(c) == SeqSum([k \in 1..(N * H * W) |-> At(dY, (k - 1) * C + c)])

\* line 73: X_arr.colwise() - mean_arr, at row c of column nhw
XMinusMean(c, nhw) == At(X, nhw * C + c) - At(mean, c)

\* line 74
DYMulXMinusMeanRowSum(c) ==
    SeqSum([k \in 1..(N * H * W) |-> At(dY, (k - 1) * C + c) * XMinusMean(c, k - 1)])

\* line 75
InvVarSqr(c) == At(invvar, c) * At(invvar, c)

\* line 77: row c of dY_arr.col(nhw)
NHWCBiasTerm(nhw, c) == At(dY, nhw * C + c)

\* the NHWC scale term without the inverse standard deviation
NHWCScaleTermNoInvVar(nhw, c) ==
    (At(X, nhw * C + c) - At(mean, c)) * At(dY, nhw * C + c)

\* lines 78-79, at row c
NHWCScaleTerm(nhw, c) ==
    (At(X, nhw * C + c) - At(mean, c)) * At(invvar, c) * At(dY, nhw * C + c)

\* the NHWC propagation reading the accumulators as they stand in iteration
\* nhw (as the NCHW propagation does after its reduction loop)
NHWCdXValueFromAccumulators(nhw, c) ==
    FMul(ScaleInvVarNHW(c),
         FInt(At(dY, nhw * C + c) * N * H * W
              - (At(dBias, c) + At(dY, nhw * C + c))
              - XMinusMean(c, nhw) * At(invvar, c)
                    * (At(dScale, c) + XMinusMean(c, nhw) * At(invvar, c)
                                            * At(dY, nhw * C + c))))

\* lines 80-82, at row c: the row sums of lines 72-74 are expressions over the
\* inputs, evaluated here; the accumulators dBias_arr, dScale_arr are not read
NHWCdXValue(nhw, c) ==
    FMul(ScaleInvVarNHW(c),
         FInt(At(dY, nhw * C + c) * N * H * W - DYRowSum(c)
              - XMinusMean(c, nhw) * InvVarSqr(c) * DYMulXMinusMeanRowSum(c)))

\* one iteration of the loop of lines 76-83
NHWCStep ==
    /\ pc = "nhwc"
    /\ idx < N * H * W
    /\ dBias' = [i \in 1..Len(dBias) |->
                    IF i <= C THEN dBias[i] + NHWCBiasTerm(idx, i - 1) ELSE dBias[i]]
    /\ dScale' = [i \in 1..Len(dScale) |->
                    IF i <= C THEN dScale[i] + NHWCScaleTerm(idx, i - 1) ELSE dScale[i]]
    /\ contrib' = [k \in 1..Len(contrib) |-> contrib[k] + 1]
    /\ LET col == {idx * C + c : c \in 0..(C - 1)}
       IN  /\ dX' = [i \in 1..Len(dX) |->
                        IF (i - 1) \in col
                        THEN FAdd(dX[i], NHWCdXValue(idx, (i - 1) - idx * C))
                        ELSE dX[i]]
           /\ writes' = [i \in 1..Len(writes) |->
                        IF (i - 1) \in col THEN writes[i] + 1 ELSE writes[i]]
    /\ IF idx + 1 >= N * H * W
       THEN pc' = "done" /\ idx' = 0
       ELSE pc' = pc /\ idx' = idx + 1
    /\ UNCHANGED <<shape, xpat, dypat, vseed, kind, order, Xdims, X, dY, scale,
                   mean, invvar, dXdims, err, N, C, H, W, prev, gvars>>

\* ------------------------------------------------------ RunOnDevice: exit
Outputs == [dX |-> dX, dScale |-> dScale, dBias |-> dBias, none |-> FALSE]

\* the caller drops the X and dY blobs it fed (the next run is fed afresh)
ReleaseInputs ==
    order' = "NCHW" /\ Xdims' = <<>> /\ X' = <<>> /\ dY' = <<>>

\* line 89: return true; the locals go out of scope, the blobs stay
RunOnDevice_Return ==
    /\ pc = "done"
    /\ pc' = "idle"
    /\ prev' = [prev EXCEPT ![order] = Outputs]
    /\ idx' = 0 /\ N' = 0 /\ C' = 0 /\ H' = 0 /\ W' = 0
    /\ contrib' = <<>> /\ writes' = <<>>
    /\ ReleaseInputs
    /\ UNCHANGED <<shape, xpat, dypat, vseed, kind, scale, mean, invvar, dXdims,
                   dX, dScale, dBias, err, gvars>>

Init ==
    /\ InitOp
    /\ gdef = NoDef
    /\ gres = NoGrad

Next ==
    \/ \E j \in Junk, same \in BOOLEAN : Scribble(j, same)
    \/ \E o \in Orders : \E phys \in FedLayouts(o) : RunOnDevice_Begin(o, phys)
    \/ NCHWReduceStep
    \/ NCHWPropStep
    \/ NHWCStep
    \/ RunOnDevice_Return

Spec == Init /\ [][Next]_vars

\* ------------------------------------------- GetSpatialBNGradient (100-128)
MaxIn == 6
MaxOut == 6
IsTestVals == {-1, 0, 1, 2}

\* argument is_test of the forward definition: absent, present without an
\* integer value (i() then reads 0), or present with value v
IsTestArgs ==
    {NoArg, [present |-> TRUE, has_i |-> FALSE, i |-> 0]}
        \cup {[present |-> TRUE, has_i |-> TRUE, i |-> v] : v \in IsTestVals}

\* the forward definitions handed to the gradient maker: input_size(),
\* output_size() and argument is_test
Defs == [nin : 0..MaxIn, nout : 0..MaxOut, is_test : IsTestArgs]

\* the names GradientMakerBase hands out
I(i) == <<"I", i>>
O(i) == <<"O", i>>
GI(i) == <<"GI", i>>
GO(i) == <<"GO", i>>

\* line 105
HasIsTest(def) == def.is_test.present

\* test mode taken only for is_test = 1
IsTestOnlyOne(def) == HasIsTest(def) /\ def.is_test.i = 1

\* lines 104-109, once the enforce of line 107 has passed: bool is_test = arg.i()
IsTest(def) == HasIsTest(def) /\ def.is_test.i # 0

\* lines 119, 123
GradInputs(def) ==
    IF IsTest(def) THEN <<I(0), I(1), GO(0), I(3), I(4)>>
                   ELSE <<I(0), I(1), GO(0), O(3), O(4)>>

\* line 110
GradOutputs == <<GI(0), GI(1), GI(2)>>

\* lines 107, 117-118, 121-122: the enforces that let the definition through.
\* (GI(2) of line 110 on a definition with fewer than 3 inputs cannot succeed
\* either: at the latest the enforce of line 117 / 121 fails.)
Enforces(def) ==
    /\ HasIsTest(def) => def.is_test.has_i
    /\ def.nin = 5
    /\ def.nout = (IF IsTest(def) THEN 1 ELSE 5)

\* lines 125-126: SingleGradientDef
SingleGradientDef(type, ins, outs) ==
    <<[type |-> type, inputs |-> ins, outputs |-> outs]>>

GetGradientDefs ==
    /\ gres.status = "none"
    /\ gdef \in Defs
    /\ gres' = (IF Enforces(gdef)
                THEN [status |-> "ok",
                      ops |-> SingleGradientDef("SpatialBNGradient",
                                                GradInputs(gdef), GradOutputs)]
                ELSE [status |-> "fail", ops |-> <<>>])
    /\ UNCHANGED <<gdef, opvars>>

\* the operator is not run while the gradient maker is exercised
DormantOp ==
    /\ InitOp
    /\ shape = <<1, 1, 1, 2>> /\ xpat = <<0, 1>> /\ dypat = <<1, 0, -1>>
    /\ vseed = 0 /\ kind = "ok"

InitGrad ==
    /\ DormantOp
    /\ gdef \in Defs
    /\ gres = NoGrad

NextGrad == GetGradientDefs

GradSpec == InitGrad /\ [][NextGrad]_vars

\* ------------------------------------------ the gradients, from the formulas
\* the k-th (0-based) position (n,h,w) of a channel of the logical tensor
PosN(k) == k \div (shape[3] * shape[4])
PosH(k) == (k \div shape[4]) % shape[3]
PosW(k) == k % shape[4]
NHW == shape[1] * shape[3] * shape[4]

\* sum over all (n,h,w) of outputGrad[n,c,h,w]
RefBias(c) ==
    SeqSum([k \in 1..NHW |-> DYL(PosN(k - 1), c, PosH(k - 1), PosW(k - 1))])

\* sum over all (n,h,w) of (activation - mean[c]) * invStd[c] * outputGrad
RefScale(c) ==
    SeqSum([k \in 1..NHW |->
        (XL(PosN(k - 1), c, PosH(k - 1), PosW(k - 1)) - MeanL(c)) * InvL(c)
            * DYL(PosN(k - 1), c, PosH(k - 1), PosW(k - 1))])

\* (scale*invStd/(N*H*W)) * (outputGrad*N*H*W - biasGrad - (x-mean)*invStd*scaleGrad)
RefdX(n, c, h, w) ==
    Frac(ScaleL(c) * InvL(c)
            * (DYL(n, c, h, w) * NHW - RefBias(c)
               - (XL(n, c, h, w) - MeanL(c)) * InvL(c) * RefScale(c)),
         NHW)

\* the input gradient the formula gives for flat element i of the run's layout
RefdXAt(i) ==
    LET q == Coord(order, shape, i) IN RefdX(q[1], q[2], q[3], q[4])

\* the sum of a per-channel blob over the channels
SumC(v) == SeqSum(SubSeq(v, 1, shape[2]))

Other(o) == IF o = "NCHW" THEN "NHWC" ELSE "NCHW"

\* ---------------------------------------------------------------- claims
\* C1: after a successful run in either layout every element of inputGrad
\* holds the value of the closed formula over the full per-channel sums, and
\* has received it by exactly one += into the zeroed buffer.
C1_InputGradFormula ==
    pc = "done" =>
        /\ Len(dX) = NumEl(shape)
        /\ \A i \in 0..(NumEl(shape) - 1) :
            At(dX, i) = RefdXAt(i) /\ At(writes, i) = 1

C1_Witness ==
    /\ pc = "done" /\ order = "NHWC" /\ NumEl(shape) >= 8
    /\ \E i, j \in 0..(NumEl(shape) - 1) :
        /\ At(dX, i)[1] # 0 /\ At(dX, i)[2] > 1
        /\ At(dX, j) # At(dX, i)

C3_LayoutInvariantSums ==
    (pc = "done" /\ ~prev[Other(order)].none) =>
        /\ SumC(dScale) = SumC(prev[Other(order)].dScale)
        /\ SumC(dBias) = SumC(prev[Other(order)].dBias)

C3_Witness ==
    /\ pc = "done" /\ order = "NHWC" /\ ~prev["NCHW"].none
    /\ X # EncodeX("NCHW")
    /\ SumC(dScale) # 0 /\ SumC(dBias) # 0

\* C4: an invocation that fails has left inputGrad, scaleGrad and biasGrad as
\* they were before the call (neither resized nor written).
C4_NoPartialResults ==
    [][(pc = "idle" /\ pc' = "failed") =>
        <<dXdims', dX', dScale', dBias'>> = <<dXdims, dX, dScale, dBias>>]_vars

\* C5: no invocation returns success when the activation's rank is not 4 or
\* scale, savedMean or savedInvStd has a length other than C.
C5_ShapeMismatchRaised ==
    pc = "done" =>
        /\ Len(Xdims) = 4
        /\ Len(scale) = C /\ Len(mean) = C /\ Len(invvar) = C

\* C6: an invocation of an instance whose layout tag is neither NCHW nor NHWC
\* ends in the UnsupportedLayout failure, whatever the blobs.
C6_UnsupportedLayoutRaised ==
    (order = "UNKNOWN" /\ pc # "idle") =>
        (pc = "failed" /\ err = "UnsupportedLayout")

\* C7: a successful run ends with exactly the outputs (contents and sizes) of
\* the last successful run on the same inputs and layout, whatever the output
\* blobs held in between.
C7_PureFunction ==
    (pc = "done" /\ ~prev[order].none) => Outputs = prev[order]

\* the same on the inputs that keep the shape contract
PureOnValidShapes ==
    (pc = "done" /\ ~prev[order].none /\ kind = "ok") => Outputs = prev[order]

\* C8: when outputGrad is zero everywhere, a successful run in either layout
\* ends with biasGrad[c] = 0 and scaleGrad[c] = 0 for every channel and
\* inputGrad = 0 at every element.
C8_ZeroOutputGrad ==
    (pc = "done" /\ \A i \in 1..Len(dY) : dY[i] = 0) =>
        /\ \A c \in 0..(shape[2] - 1) : At(dBias, c) = 0 /\ At(dScale, c) = 0
        /\ \A i \in 1..Len(dX) : dX[i] = FInt(0)

C8_Witness ==
    /\ pc = "done" /\ Len(dY) >= 4
    /\ \A i \in 1..Len(dY) : dY[i] = 0
    /\ \E i \in 1..Len(X) : X[i] # 0
    /\ ~prev[Other(order)].none

\* the += of the current step reaches flat element i (0-based) of inputGrad
Written(i) == pc \in {"nchw_prop", "nhwc"} /\ At(writes', i) > At(writes, i)
ChannelAt(i) == Coord(order, shape, i)[2]

\* C9 (as claimed): in both layouts, when an element of inputGrad of channel c
\* is written, the accumulators of c have received all N*H*W positions.
C9_ReductionPrecedesWrites ==
    [][\A i \in 0..(NumEl(shape) - 1) :
        Written(i) => At(contrib', ChannelAt(i)) = NHW]_vars

\* C9 (amended): in NCHW every inputGrad write comes after the accumulators
\* have received all N*H*W positions; in NHWC the write of column nhw comes
\* when the accumulators hold positions 0..nhw only, and the value written,
\* taken from row sums over all positions, is already the formula's value.
C9_PerLayoutOrdering ==
    [][\A i \in 0..(NumEl(shape) - 1) :
        Written(i) =>
            /\ order = "NCHW" => At(contrib, ChannelAt(i)) = NHW /\ contrib' = contrib
            /\ order = "NHWC" => At(contrib', ChannelAt(i)) = idx + 1
            /\ At(dX', i) = RefdXAt(i)]_vars

C9_Witness ==
    /\ pc = "nhwc" /\ idx >= 1
    /\ \E i \in 0..(NumEl(shape) - 1) :
        At(writes, i) = 1 /\ At(contrib, ChannelAt(i)) < NHW

\* C10: GetGradientDefs fails exactly when the forward definition has not 5
\* inputs, or not 1 output in test mode, or not 5 outputs in training mode, or
\* has is_test without an integer value; otherwise it returns one
\* SpatialBNGradient operator with the 5 inputs [I0, I1, GO0, s3, s4] (s3, s4
\* forward inputs 3, 4 in test mode, forward outputs 3, 4 otherwise) and the
\* 3 outputs [GI0, GI1, GI2]. Test mode: is_test present and non-zero.
C10_GradientDefs ==
    gres.status # "none" =>
        LET a == gdef.is_test
            test == a.present /\ a.i # 0
            bad == \/ gdef.nin # 5
                   \/ test /\ gdef.nout # 1
                   \/ ~test /\ gdef.nout # 5
                   \/ a.present /\ ~a.has_i
        IN  /\ gres.status = "fail" <=> bad
            /\ gres.status = "ok" =>
                /\ Len(gres.ops) = 1
                /\ gres.ops[1].type = "SpatialBNGradient"
                /\ Len(gres.ops[1].inputs) = 5 /\ Len(gres.ops[1].outputs) = 3
                /\ gres.ops[1].inputs =
                     <<<<"I", 0>>, <<"I", 1>>, <<"GO", 0>>,
                       <<IF test THEN "I" ELSE "O", 3>>,
                       <<IF test THEN "I" ELSE "O", 4>>>>
                /\ gres.ops[1].outputs = <<<<"GI", 0>>, <<"GI", 1>>, <<"GI", 2>>>>

C10_Witness ==
    /\ gres.status = "ok"
    /\ gdef.is_test.present /\ gdef.is_test.i \notin {0, 1}
    /\ gres.ops[1].inputs[4] = <<"I", 3>>

====
